---- MODULE Spec2Model ----
(***************************************************************************)
(* The retrying HTTP client of utils/api_client.py: the retry decorator    *)
(* (retry / decorator / wrapper) and the ApiClient whose get, post, put    *)
(* and delete methods are wrapped by it.                                   *)
(*                                                                         *)
(* One call through a wrapper is a small sequential process: it starts     *)
(* (attempt = 0, current_delay = delay), invokes the wrapped function,     *)
(* and either returns, propagates an exception the except clause does not  *)
(* catch, or counts the failure and raises (exhausted) or logs, sleeps,    *)
(* multiplies the delay and tries again.  The transport (requests.Session) *)
(* and time.sleep are the environment: each invocation's outcome is chosen *)
(* nondeterministically.                                                   *)
(***************************************************************************)
EXTENDS Integers, Sequences, FiniteSets, TLC

VARIABLES
    \* ---- ApiClient fields (api_client.py:71-84)
    base_url,         \* self.base_url
    api_key,          \* self.api_key: <<>> is None, <<s>> is the string s
    timeout,          \* self.timeout
    retry_count,      \* self.retry_count
    session_headers,  \* self.session.headers: set of <<name, value>>
    session_open,     \* self.session has not been closed
    \* ---- the api_client fixture (conftest.py:32-55)
    phase,            \* "yielded" (tests run) | "torndown"
    closes,           \* number of client.close() calls made
    constructed,      \* the values __init__ was given and the headers it set
    \* ---- the retry-decorated functions that exist: name -> closure values
    decorated,        \* [name |-> [max_attempts, delay, backoff]]
    \* ---- one call through wrapper (api_client.py:31-46)
    pc,               \* "idle" | "invoke" | "sleep" | "done"
    entry,            \* the method the caller invoked
    target,           \* the decorated function being called
    endpoint,         \* the endpoint argument of the call
    params,           \* the params argument of the call
    attempt,          \* local attempt
    current_delay,    \* local current_delay
    result,           \* what the caller got: pending / response / none / raised
    \* ---- what the environment observed during the call
    trace,            \* outcome of each invocation of the transport, in order
    wire,             \* the request handed to the transport at each invocation
    sleeps,           \* argument of each time.sleep, in order
    events,           \* invocations, log entries and sleeps, in order
    lastGet,          \* trace, sleeps and result of the last completed get
    \* ---- threads calling through one client at once
    frames,           \* the locals of each activation of wrapper
    th,               \* each thread's call: position and observations
    \* ---- ConfigManager (config_manager.py)
    config_file,      \* what is at self.config_path when __init__ runs
    config,           \* self.config
    answer,           \* the last call on the ConfigManager and its outcome
    config_before,    \* self.config as the last update_config found it
    updates,          \* number of update_config calls made
    \* ---- what the api_client fixture is given (conftest.py:32-50, 109-127)
    options,          \* the pytest options --api-url and --api-key
    api_config,       \* api_config = config.get_api_config()
    \* ---- one run of run_tests.main (run_tests.py:201-255)
    test_type,        \* args.test_type
    mpc,              \* where main, or run_performance_tests under it, is
    dependencies,     \* what check_dependencies() returned, once called
    success,          \* main's local success
    exit_code,        \* the status main exited with: <<>> while it runs
    suites,           \* the suites started, in order; returned is <<>> or <<b>>
    commands,         \* each run_command call: command, exit status, stdout
    \* ---- one StabilityTestUser (stability_test.py)
    user,             \* started, request_count, success_count, failure_count
    executed,         \* task executions whose request completed
    last_task         \* the last such execution: response and what became of it

clientVars == <<base_url, api_key, timeout, retry_count, session_headers>>
fixtureVars == <<session_open, phase, closes, constructed>>
callVars == <<pc, entry, target, endpoint, params, attempt, current_delay,
              result>>
histVars == <<trace, wire, sleeps, events, lastGet>>
threadVars == <<frames, th>>
configVars == <<config_file, config, answer, config_before, updates>>
setupVars == <<options, api_config>>
runVars == <<test_type, mpc, dependencies, success, exit_code, suites,
             commands>>
userVars == <<user, executed, last_task>>
otherVars == <<threadVars, configVars, setupVars, runVars, userVars>>
coreVars == <<clientVars, fixtureVars, decorated, callVars, histVars>>
\* what the threads leave alone, and what the ConfigManager does
exceptThreads == <<coreVars, configVars, setupVars, runVars, userVars>>
exceptConfig == <<coreVars, threadVars, setupVars, runVars, userVars>>
\* and run_tests.main, and a StabilityTestUser
exceptRun == <<coreVars, threadVars, configVars, setupVars, userVars>>
exceptUser == <<coreVars, threadVars, configVars, setupVars, runVars>>
vars == <<clientVars, fixtureVars, decorated, callVars, histVars, otherVars>>

----------------------------------------------------------------------------
\* Bounds of the model

\* largest max_attempts a retry policy is given
MaxAttemptsBound == 4
\* largest base delay a retry policy is given
MaxDelay == 2
\* largest backoff factor a retry policy is given
MaxBackoff == 3
\* largest retry_count an ApiClient is constructed with
MaxRetryCount == 3
\* number of threads that call through one client at once
NumThreads == 2
\* number of update_config calls made on one ConfigManager
MaxUpdates == 1
\* longest stdout of a pytest run, in whitespace-separated tokens
MaxTokens == 2
\* number of tasks one StabilityTestUser executes
MaxTasks == 3
\* longest key, in characters, get_value is called with
MaxKeyLen == 3
\* largest number of entries of the top-level mapping of a configuration
MaxEntries == 2

----------------------------------------------------------------------------
\* Values

None == <<>>
Some(x) == <<x>>

\* Python truthiness of an Optional[str]: None and "" are falsy
Truthy(opt) == opt # None /\ opt[1] # ""

Verbs == {"get", "post", "put", "delete"}

BaseUrls == {"https://api.example"}
ApiKeys == {None, Some(""), Some("secret")}
Timeouts == {30}
Endpoints == {"/v1/cryptocurrency/listings/latest"}

\* the convenience methods, each a call of self.get(endpoint, params)
Getters ==
    {"get_cryptocurrency_listings", "get_cryptocurrency_info",
     "get_exchange_listings"}

\* the endpoint each of them passes to self.get
GetterEndpoint(g) ==
    CASE g = "get_cryptocurrency_listings" ->
            "/v1/cryptocurrency/listings/latest"
      [] g = "get_cryptocurrency_info" -> "/v2/cryptocurrency/info"
      [] g = "get_exchange_listings" -> "/v1/exchange/listings/latest"

\* the params each of them passes, with the default arguments
\* (limit=100, convert='USD') and the symbol BTC
GetterParams(g) ==
    CASE g = "get_cryptocurrency_listings" ->
            {<<"limit", "100">>, <<"convert", "USD">>}
      [] g = "get_cryptocurrency_info" -> {<<"symbol", "BTC">>}
      [] g = "get_exchange_listings" -> {<<"limit", "100">>}

\* what a caller passes after the endpoint: nothing, or for post a form
Payloads(t) ==
    IF t = "post" THEN {None, Some({<<"name", "BTC">>})} ELSE {None}

\* Exception classes.  requests.exceptions.RequestException is the base of
\* ConnectionError, Timeout and HTTPError; ValueError is outside it.
RequestExceptionClasses == {"ConnectionError", "Timeout", "HTTPError"}

\* What one transport call (session.get/post/put/delete) can do: hand back
\* a response with some status, or raise.
Response(s) == [kind |-> "response", status |-> s, exc |-> ""]
Raises(e, s) == [kind |-> "raise", status |-> s, exc |-> e]

\* what the session of an ApiClient method can do
Statuses == {200, 304, 404, 503}
TransportOutcomes ==
    {Response(s) : s \in Statuses}
        \cup {Raises("ConnectionError", 0), Raises("ValueError", 0)}

\* what a function under the decorator can do: return a value or raise
FunctionOutcomes ==
    {Response(200), Response(304), Raises("ConnectionError", 0),
     Raises("Timeout", 0), Raises("ValueError", 0)}

\* the outcomes one invocation made by a call of t can meet
Outcomes(t) == IF t \in Verbs THEN TransportOutcomes ELSE FunctionOutcomes

----------------------------------------------------------------------------
\* The retry decorator (api_client.py:15-49)

\* defaults of retry(..., delay=1, backoff=2, exceptions=...)
DefaultDelay == 1
DefaultBackoff == 2

\* max_attempts given by @retry(max_attempts=3) on get, post, put, delete
MethodMaxAttempts == 3

\* post decorated with @retry(max_attempts=1): the mutating verb not retried
MethodPolicyPostOnce(verb) ==
    [max_attempts |-> IF verb = "post" THEN 1 ELSE 3,
     delay |-> 1,
     backoff |-> 2]

\* the closure values of the wrapper of each ApiClient method:
\* @retry(max_attempts=3) with delay and backoff left at their defaults
MethodPolicy(verb) ==
    [max_attempts |-> MethodMaxAttempts,
     delay |-> DefaultDelay,
     backoff |-> DefaultBackoff]

\* the retry policies a function can be decorated with
Policies ==
    [max_attempts : -1..MaxAttemptsBound,
     delay : 1..MaxDelay,
     backoff : 1..MaxBackoff]

\* attempt kept in the closure of decorator: it survives the call
InitialAttemptKept(previous) == previous

\* `attempt = 0` on entry to wrapper, whatever an earlier call left
InitialAttempt(previous) == 0

\* current_delay kept in the closure of decorator once it has been set
InitialDelayKept(delay, previous) == IF previous = 0 THEN delay ELSE previous

\* `current_delay = delay` on entry to wrapper
InitialDelay(delay, previous) == delay

\* except Exception: every exception is caught and retried
IsRetryableAny(exc) == TRUE

\* `except exceptions as e` with the default
\* exceptions=(requests.exceptions.RequestException,)
IsRetryable(exc) == exc \in RequestExceptionClasses

\* while attempt < max_attempts - 1: one round too few
LoopGuardShort(a, max_attempts) == a < max_attempts - 1

\* a loop that tests after its body: the function is invoked once anyway
LoopGuardDoWhile(a, max_attempts) == a = 0 \/ a < max_attempts

\* `while attempt < max_attempts`
LoopGuard(a, max_attempts) == a < max_attempts

\* the test made before the increment: exhaustion one attempt early
ExhaustedEarly(a, max_attempts) == a + 1 = max_attempts

\* if attempt > max_attempts: the raise is never reached
ExhaustedLate(a, max_attempts) == a > max_attempts

\* `if attempt == max_attempts` (after attempt += 1)
Exhausted(a, max_attempts) == a = max_attempts

\* current_delay += backoff: linear instead of exponential
NextDelayAdd(d, backoff) == d + backoff

\* `current_delay *= backoff`
NextDelay(d, backoff) == d * backoff

----------------------------------------------------------------------------
\* ApiClient (api_client.py:52-248)

DefaultTimeout == 30
DefaultRetryCount == 3

DefaultHeaders ==
    {<<"Accept", "application/json">>,
     <<"User-Agent", "Crypto-QA-Framework/1.0">>}

KeyHeader == "X-CMC_PRO_API_KEY"

\* if api_key is not None: an empty key is sent too
SessionHeadersNotNone(key) ==
    DefaultHeaders \cup (IF key # None THEN {<<KeyHeader, key[1]>>} ELSE {})

\* session.headers after __init__: the defaults, plus the key header
\* `if api_key:`
SessionHeaders(key) ==
    DefaultHeaders \cup
        (IF Truthy(key) THEN {<<KeyHeader, key[1]>>} ELSE {})

\* only server errors raise
RaiseForStatusServerOnly(status) == 500 <= status /\ status < 600

\* every status outside 2xx raises
RaiseForStatusNon2xx(status) == status < 200 \/ status >= 300

\* response.raise_for_status(): raises HTTPError for 4xx and 5xx
RaiseForStatus(status) == 400 <= status /\ status < 600

\* body of get/post/put/delete after the transport call: an exception of
\* the transport propagates, raise_for_status() may raise, else the
\* response is returned
VerbBody(o) ==
    IF o.kind = "response" /\ RaiseForStatus(o.status)
    THEN Raises("HTTPError", o.status)
    ELSE o

\* what one invocation of the wrapped function does, given what the
\* transport did; a decorated function other than the four methods is
\* taken to return or raise whatever its transport does
FuncOutcome(t, o) == IF t \in Verbs THEN VerbBody(o) ELSE o

\* the argument after endpoint is sent as the body by post and put
\* (data=data) and as the query by get and delete (params=params)
IsBodyVerb(verb) == verb \in {"post", "put"}

\* a retry is sent bare: the query or body goes with the first attempt only
BuildRequestBareRetry(verb, ep) ==
    [method |-> verb,
     url |-> base_url \o ep,
     params |-> IF IsBodyVerb(verb) \/ attempt > 0 THEN None ELSE params,
     data |-> IF IsBodyVerb(verb) /\ attempt = 0 THEN params ELSE None,
     timeout |-> timeout,
     headers |-> session_headers]

\* the request a method hands to the session: url = base_url + endpoint,
\* params=params or data=data, timeout = self.timeout, and the session's
\* headers (no per-request ones)
BuildRequest(verb, ep) ==
    [method |-> verb,
     url |-> base_url \o ep,
     params |-> IF IsBodyVerb(verb) THEN None ELSE params,
     data |-> IF IsBodyVerb(verb) THEN params ELSE None,
     timeout |-> timeout,
     headers |-> session_headers]

WireAfter(t, ep) ==
    IF t \in Verbs THEN Append(wire, BuildRequest(t, ep)) ELSE wire

----------------------------------------------------------------------------
\* Results and observations

Pending == [kind |-> "pending", status |-> 0, exc |-> ""]
ReturnedNone == [kind |-> "none", status |-> 0, exc |-> ""]

Event(type, a, w) == [type |-> type, attempt |-> a, wait |-> w]

\* the warning written after the delay was multiplied: the next wait
WarningEntryNextWait(a, d, backoff) == Event("warning", a, d * backoff)

\* logger.warning(f"Attempt {attempt} failed: {e}. Retrying in
\* {current_delay}s..."), written after attempt += 1
WarningEntry(a, d, backoff) == Event("warning", a, d)

\* the error is not logged
ErrorEntriesNone(max_attempts) == <<>>

\* logger.error(f"Failed after {max_attempts} attempts: {e}")
ErrorEntries(max_attempts) == <<Event("error", max_attempts, 0)>>

NoGet == [trace |-> <<>>, sleeps |-> <<>>, result |-> Pending]

\* lastGet once a call of t has completed with these observations
LastGetAfter(t, tr, sl, res) ==
    IF t = "get" THEN [trace |-> tr, sleeps |-> sl, result |-> res]
    ELSE lastGet

policy == decorated[target]

----------------------------------------------------------------------------
\* ConfigManager: Python values, the YAML document, the lookups

\* a str is the sequence of its characters
Chars == {"a", "b", "."}
api == <<"a", "p", "i">>
web == <<"w", "e", "b">>
performance == <<"p", "e", "r", "f", "o", "r", "m", "a", "n", "c", "e">>

NoItems == [k \in {} |-> 0]

\* Python objects yaml.safe_load can produce
PyNone == [kind |-> "NoneType", items |-> NoItems, v |-> 0]
PyInt(n) == [kind |-> "int", items |-> NoItems, v |-> n]
PyList == [kind |-> "list", items |-> NoItems, v |-> 0]
Dict(f) == [kind |-> "dict", items |-> f, v |-> 0]
EmptyDict == Dict(NoItems)

IsDict(value) == value.kind = "dict"

\* the mappings with keys among K, at most MaxEntries of them, and values
\* among V
DictsOver(K, V) ==
    {Dict(f) : f \in UNION {[S -> V] :
                      S \in {T \in SUBSET K : Cardinality(T) <= MaxEntries}}}

Leaves == {PyNone, PyInt(1)}
InnerKeys == {<<"b">>, <<>>}
InnerDicts == DictsOver(InnerKeys, {PyNone})
TopKeys == {<<"a">>, <<"a", ".", "b">>, api, web, performance}
SectionDicts == {Dict([k \in {<<"a">>} |-> PyInt(1)])}

\* what a top-level key is mapped to: a section is a mapping or a scalar
TopValues(k) ==
    IF k \in {api, web, performance} THEN SectionDicts \cup {PyInt(1)}
    ELSE InnerDicts \cup Leaves \cup {PyList}

TopDicts ==
    {d \in DictsOver(TopKeys,
                     InnerDicts \cup SectionDicts \cup Leaves \cup {PyList}) :
        \A k \in DOMAIN d.items : d.items[k] \in TopValues(k)}

\* the documents a YAML file can hold: a mapping, nothing (an empty file),
\* a sequence, a scalar
Docs == TopDicts \cup {PyNone, PyList, PyInt(1)}

File(kind, doc) == [kind |-> kind, doc |-> doc]

\* the file at config_path: absent, not YAML, or a YAML document
Files ==
    {File("missing", PyNone), File("invalid", PyNone)}
        \cup {File("yaml", d) : d \in Docs}

\* _load_config: lines 40-46
LoadConfig(f) ==
    IF f.kind = "yaml" THEN f.doc ELSE EmptyDict

\* what a caller gets from a call
Returned(value, via) == [kind |-> "return", value |-> value, via |-> via]
Raised(exc) == [kind |-> "raise", value |-> PyNone, via |-> exc]

\* key.split('.'): cur is the segment being read
RECURSIVE SplitFrom(_, _)
SplitFrom(rest, cur) ==
    IF rest = <<>> THEN <<cur>>
    ELSE IF Head(rest) = "." THEN <<cur>> \o SplitFrom(Tail(rest), <<>>)
    ELSE SplitFrom(Tail(rest), Append(cur, Head(rest)))

\* keys = key.split('.'): line 86
Split(key) == SplitFrom(key, <<>>)

NotFoundNone(default) == Returned(PyNone, "default")

\* return default: line 93
NotFound(default) == Returned(default, "default")

\* the loop of get_value: lines 89-95
RECURSIVE GetValueLoop(_, _, _)
GetValueLoop(value, keys, default) ==
    IF keys = <<>> THEN Returned(value, "value")
    ELSE IF IsDict(value) /\ Head(keys) \in DOMAIN value.items
         THEN GetValueLoop(value.items[Head(keys)], Tail(keys), default)
         ELSE NotFound(default)

\* get_value: lines 86-95
GetValue(cfg, key, default) == GetValueLoop(cfg, Split(key), default)

\* self.config.get(name, {}): lines 55, 64, 73
Section(cfg, name) ==
    IF IsDict(cfg)
    THEN Returned(IF name \in DOMAIN cfg.items THEN cfg.items[name]
                  ELSE EmptyDict, "value")
    ELSE Raised("AttributeError")

\* items with config[k] = value done
Put(items, k, value) ==
    [x \in DOMAIN items \cup {k} |-> IF x = k THEN value ELSE items[x]]

\* update_config from the mapping node down: lines 109-115.  `k not in
\* config`, `config[k] = {}` and `config[keys[-1]] = value` raise
\* TypeError on None, on an int and (the index being a str) on a list.
RECURSIVE UpdateLoop(_, _, _)
UpdateLoop(node, keys, value) ==
    IF ~IsDict(node) THEN [raised |-> TRUE, config |-> node]
    ELSE IF Len(keys) = 1
    THEN [raised |-> FALSE,
          config |-> Dict(Put(node.items, keys[1], value))]
    ELSE LET k == Head(keys)
             child == IF k \in DOMAIN node.items THEN node.items[k]
                      ELSE EmptyDict
             r == UpdateLoop(child, Tail(keys), value)
         IN  [raised |-> r.raised,
              config |-> Dict(Put(node.items, k, r.config))]

\* update_config: lines 105-115
UpdateConfig(cfg, key, value) == UpdateLoop(cfg, Split(key), value)

\* the values update_config is given
UpdateValues == {PyNone, PyInt(2)}

\* the documents with at most one top-level entry
SmallFiles ==
    {f \in Files : IsDict(f.doc) => Cardinality(DOMAIN f.doc.items) <= 1}

NoCall == [op |-> "none", key |-> <<>>, default |-> PyNone,
           ret |-> Returned(PyNone, "none")]

\* the strings of at most n characters
RECURSIVE Strings(_)
Strings(n) ==
    IF n = 0 THEN {<<>>}
    ELSE Strings(n - 1)
            \cup {Append(w, c) : w \in {x \in Strings(n - 1) : Len(x) = n - 1},
                                 c \in Chars}

Keys == Strings(MaxKeyLen)
Defaults == {PyNone, PyInt(0)}

----------------------------------------------------------------------------
\* Initial states

\* a ConfigManager built where there is no file, and not called
InitConfigIdle ==
    /\ config_file = File("missing", PyNone)
    /\ config = LoadConfig(config_file)
    /\ answer = NoCall
    /\ config_before = config
    /\ updates = 0

\* what __init__ was given and what it made of it
Constructed ==
    [base_url |-> base_url, api_key |-> api_key, timeout |-> timeout,
     retry_count |-> retry_count, headers |-> session_headers]

\* pytest run without --api-url and --api-key: both default to None
NoOptions == [api_url |-> None, api_key |-> None]

\* the pytest command lines: each option absent or given
Options ==
    [api_url : {None, Some("https://cli.example")},
     api_key : {None, Some("cli-key")}]

\* the api section of the configuration: base_url and api_key, and
\* timeout and retry_count present or not
ApiConfigs ==
    [base_url : BaseUrls,
     api_key : {Some("secret")},
     timeout : {None, Some(DefaultTimeout)},
     retry_count : {Some(DefaultRetryCount)}]

\* api_config.get(name, default)
GetOr(opt, default) == IF opt = None THEN default ELSE opt[1]

\* the arguments the fixture passes to ApiClient(...): conftest.py:45-50
ClientArgs(opts, cfg) ==
    [base_url |-> cfg.base_url,
     api_key |-> cfg.api_key,
     timeout |-> GetOr(cfg.timeout, DefaultTimeout),
     retry_count |-> GetOr(cfg.retry_count, DefaultRetryCount)]

\* run_tests.main not started, and no StabilityTestUser spawned
InitRunIdle ==
    /\ test_type = "all"
    /\ mpc = "dependencies"
    /\ dependencies = "unchecked"
    /\ success = TRUE
    /\ exit_code = None
    /\ suites = <<>>
    /\ commands = <<>>

\* response bodies.  kind: "text" is not JSON, "scalar" a JSON number,
\* true, false or null, "list" and "object" a JSON array and object with
\* the elements, resp. member names, keys; status is what data['status']
\* holds: a mapping or not, its error_code if any, and whether it has an
\* error_message
StatusValues ==
    {[mapping |-> FALSE, error_code |-> None, has_message |-> FALSE]}
        \cup [mapping : {TRUE}, error_code : {None, Some(0), Some(1001)},
              has_message : BOOLEAN]

NoStatus == [mapping |-> FALSE, error_code |-> None, has_message |-> FALSE]

Bodies ==
    {[kind |-> k, keys |-> {}, status |-> NoStatus] : k \in {"text", "scalar"}}
        \cup {[kind |-> "list", keys |-> ks, status |-> NoStatus] :
                  ks \in SUBSET {"status", "data"}}
        \cup {[kind |-> "object", keys |-> ks, status |-> NoStatus] :
                  ks \in SUBSET {"data"}}
        \cup {[kind |-> "object", keys |-> ks \cup {"status"}, status |-> st] :
                  ks \in SUBSET {"data"}, st \in StatusValues}

\* response.status_code: 0 is what locust reports when no response came
StatusCodes == {0, 200, 500}

\* the tasks of StabilityTestUser
Tasks ==
    {"get_cryptocurrency_listings", "get_cryptocurrency_quotes",
     "get_exchange_listings", "get_global_metrics"}

NoTask == [task |-> "none", status |-> 0,
           body |-> [kind |-> "text", keys |-> {}, status |-> NoStatus],
           outcome |-> "none"]

InitUserIdle ==
    /\ user = [started |-> FALSE, request_count |-> 0, success_count |-> 0,
               failure_count |-> 0]
    /\ executed = 0
    /\ last_task = NoTask

\* no option given, and an api section that holds what the client has
InitSetupIdle ==
    /\ options = NoOptions
    /\ api_config = [base_url |-> base_url, api_key |-> api_key,
                     timeout |-> Some(timeout),
                     retry_count |-> Some(retry_count)]

\* the api_client fixture up to its yield: ApiClient.__init__
InitClient ==
    /\ base_url \in BaseUrls
    /\ api_key \in ApiKeys
    /\ timeout \in Timeouts
    /\ retry_count \in 1..MaxRetryCount
    /\ session_headers = SessionHeaders(api_key)
    /\ session_open = TRUE
    /\ phase = "yielded"
    /\ closes = 0
    /\ constructed = Constructed

InitCall ==
    /\ pc = "idle"
    /\ entry = "none"
    /\ target = "none"
    /\ endpoint = ""
    /\ params = None
    /\ attempt = 0
    /\ current_delay = 0
    /\ result = Pending
    /\ trace = <<>>
    /\ wire = <<>>
    /\ sleeps = <<>>
    /\ events = <<>>
    /\ lastGet = NoGet

Threads == 1..NumThreads

IdleThread ==
    [pc |-> "idle", target |-> "none", calls |-> 0, fails |-> 0,
     sleeps |-> <<>>, result |-> Pending]

\* no thread has called yet
InitThreadsIdle ==
    /\ frames = [f \in Threads |-> [attempt |-> 0, current_delay |-> 0]]
    /\ th = [t \in Threads |-> IdleThread]

\* a constructed ApiClient: the decorated functions are its four methods
Init ==
    /\ InitClient
    /\ decorated = [v \in Verbs |-> MethodPolicy(v)]
    /\ InitCall
    /\ InitThreadsIdle
    /\ InitConfigIdle
    /\ InitSetupIdle
    /\ InitRunIdle
    /\ InitUserIdle

\* a function decorated with retry(max_attempts, delay, backoff) for any
\* policy; the client is one built with the defaults
InitRetry ==
    /\ base_url \in BaseUrls
    /\ api_key = None
    /\ timeout = DefaultTimeout
    /\ retry_count = DefaultRetryCount
    /\ session_headers = SessionHeaders(api_key)
    /\ session_open = TRUE
    /\ phase = "yielded"
    /\ closes = 0
    /\ constructed = Constructed
    /\ decorated \in {[f \in {"func"} |-> p] : p \in Policies}
    /\ InitCall
    /\ InitThreadsIdle
    /\ InitConfigIdle
    /\ InitSetupIdle
    /\ InitRunIdle
    /\ InitUserIdle

\* one client built with the defaults, shared by the threads
InitThreads ==
    /\ base_url \in BaseUrls
    /\ api_key = None
    /\ timeout = DefaultTimeout
    /\ retry_count = DefaultRetryCount
    /\ session_headers = SessionHeaders(api_key)
    /\ session_open = TRUE
    /\ phase = "yielded"
    /\ closes = 0
    /\ constructed = Constructed
    /\ decorated = [v \in Verbs |-> MethodPolicy(v)]
    /\ InitCall
    /\ InitThreadsIdle
    /\ InitConfigIdle
    /\ InitSetupIdle
    /\ InitRunIdle
    /\ InitUserIdle

----------------------------------------------------------------------------
\* Actions

\* wrapper(*args, **kwargs) is entered: lines 32-35.  e is the method the
\* caller invoked, t the decorated function that call reaches.  The tests
\* call the client between the fixture's yield and its teardown.
Enter(e, t, ep, ps) ==
    /\ pc \in {"idle", "done"}
    /\ t \in Verbs => phase = "yielded"
    /\ entry' = e
    /\ target' = t
    /\ endpoint' = ep
    /\ params' = ps
    /\ attempt' = InitialAttempt(attempt)
    /\ current_delay' = InitialDelay(decorated[t].delay, current_delay)
    /\ trace' = <<>>
    /\ wire' = <<>>
    /\ sleeps' = <<>>
    /\ events' = <<>>
    /\ IF LoopGuard(attempt', decorated[t].max_attempts)
       THEN /\ pc' = "invoke"
            /\ result' = Pending
            /\ UNCHANGED lastGet
       ELSE \* the loop body never runs: the wrapper falls off its end
            /\ pc' = "done"
            /\ result' = ReturnedNone
            /\ lastGet' = LastGetAfter(t, <<>>, <<>>, ReturnedNone)
    /\ UNCHANGED <<clientVars, fixtureVars, decorated, otherVars>>

\* a decorated function is called directly
Call(t, ep, ps) == Enter(t, t, ep, ps)

\* the convenience method goes through post
GetterTargetPost(g) == "post"

\* the decorated method a convenience method calls: self.get
GetterTarget(g) == "get"

\* get_cryptocurrency_listings / get_cryptocurrency_info /
\* get_exchange_listings: return self.get(endpoint, params)
CallGetter(g) ==
    Enter(g, GetterTarget(g), GetterEndpoint(g), Some(GetterParams(g)))

\* line 37, func returns: the wrapper returns its value
AttemptReturns(o) ==
    /\ pc = "invoke"
    /\ FuncOutcome(target, o).kind = "response"
    /\ trace' = Append(trace, o)
    /\ wire' = WireAfter(target, endpoint)
    /\ events' = Append(events, Event("invoke", attempt, 0))
    /\ result' = FuncOutcome(target, o)
    /\ pc' = "done"
    /\ lastGet' = LastGetAfter(target, trace', sleeps, result')
    /\ UNCHANGED <<clientVars, fixtureVars, otherVars, decorated, entry, target,
                   endpoint, params, attempt,
                   current_delay, sleeps>>

\* line 37, func raises an exception the except clause does not name:
\* it propagates out of the wrapper
AttemptRaisesUncaught(o) ==
    /\ pc = "invoke"
    /\ FuncOutcome(target, o).kind = "raise"
    /\ ~IsRetryable(FuncOutcome(target, o).exc)
    /\ trace' = Append(trace, o)
    /\ wire' = WireAfter(target, endpoint)
    /\ events' = Append(events, Event("invoke", attempt, 0))
    /\ result' = FuncOutcome(target, o)
    /\ pc' = "done"
    /\ lastGet' = LastGetAfter(target, trace', sleeps, result')
    /\ UNCHANGED <<clientVars, fixtureVars, otherVars, decorated, entry, target,
                   endpoint, params, attempt,
                   current_delay, sleeps>>

\* lines 37-44, func raises one of `exceptions`: the attempt is counted;
\* on the last one the error is logged and the exception re-raised,
\* otherwise the warning is logged and the wrapper goes to sleep
AttemptFails(o) ==
    /\ pc = "invoke"
    /\ FuncOutcome(target, o).kind = "raise"
    /\ IsRetryable(FuncOutcome(target, o).exc)
    /\ trace' = Append(trace, o)
    /\ wire' = WireAfter(target, endpoint)
    /\ attempt' = attempt + 1
    /\ IF Exhausted(attempt', policy.max_attempts)
       THEN /\ events' = events \o
                   (<<Event("invoke", attempt, 0)>>
                       \o ErrorEntries(policy.max_attempts))
            /\ result' = FuncOutcome(target, o)
            /\ pc' = "done"
            /\ lastGet' = LastGetAfter(target, trace', sleeps, result')
       ELSE /\ events' = events \o
                   <<Event("invoke", attempt, 0),
                     WarningEntry(attempt', current_delay, policy.backoff)>>
            /\ result' = Pending
            /\ pc' = "sleep"
            /\ UNCHANGED lastGet
    /\ UNCHANGED <<clientVars, fixtureVars, otherVars, decorated, entry, target,
                   endpoint, params, current_delay,
                   sleeps>>

\* lines 45-46 and the loop test of line 35: time.sleep(current_delay)
\* returns, the delay is multiplied, the loop goes round
Sleep ==
    /\ pc = "sleep"
    /\ sleeps' = Append(sleeps, current_delay)
    /\ events' = Append(events, Event("sleep", attempt, current_delay))
    /\ current_delay' = NextDelay(current_delay, policy.backoff)
    /\ IF LoopGuard(attempt, policy.max_attempts)
       THEN /\ pc' = "invoke"
            /\ UNCHANGED <<result, lastGet>>
       ELSE /\ pc' = "done"
            /\ result' = ReturnedNone
            /\ lastGet' = LastGetAfter(target, trace, sleeps', ReturnedNone)
    /\ UNCHANGED <<clientVars, fixtureVars, otherVars, decorated, entry, target,
                   endpoint, params, attempt, trace,
                   wire>>

\* close() is a stub that leaves the session open
SessionAfterCloseNoop(open) == open

\* ApiClient.close: self.session.close()
SessionAfterClose(open) == FALSE

\* close() drops the session's headers with its connections
HeadersAfterCloseCleared(headers) == {}

\* session.close() closes the adapters; the headers stay as they are
HeadersAfterClose(headers) == headers

\* the api_client fixture after its yield, once the tests that use the
\* client are over: client.close()
Teardown ==
    /\ phase = "yielded"
    /\ pc \in {"idle", "done"}
    /\ phase' = "torndown"
    /\ closes' = closes + 1
    /\ session_open' = SessionAfterClose(session_open)
    /\ session_headers' = HeadersAfterClose(session_headers)
    /\ UNCHANGED <<base_url, api_key, timeout, retry_count, constructed,
                   decorated, callVars, histVars, otherVars>>

\* one invocation of the wrapped function, whatever it does
Attempt ==
    \E o \in Outcomes(target) :
        \/ AttemptReturns(o)
        \/ AttemptRaisesUncaught(o)
        \/ AttemptFails(o)

\* a function under the decorator: calls, invocations, sleeps
NextRetry ==
    \/ \E t \in DOMAIN decorated, ep \in Endpoints :
          \E ps \in Payloads(t) : Call(t, ep, ps)
    \/ \E o \in Outcomes(target) : AttemptReturns(o)
    \/ \E o \in Outcomes(target) : AttemptRaisesUncaught(o)
    \/ \E o \in Outcomes(target) : AttemptFails(o)
    \/ Sleep

\* the client under the fixture: the same, plus the convenience methods
\* and the teardown
Next ==
    \/ NextRetry
    \/ \E g \in Getters : CallGetter(g)
    \/ Teardown

----------------------------------------------------------------------------
\* Several threads call through one client (test_api_concurrent_requests
\* runs api_client.get_cryptocurrency_listings in a ThreadPoolExecutor).
\* Each call is an activation of wrapper with its own locals; a thread is
\* blocked in the transport (pc "invoke") or in time.sleep (pc "sleep").

\* attempt and current_delay kept on the decorated function: one set of
\* them for all the threads
FrameShared(t) == 1

\* the activation record thread t's call runs in: its own
Frame(t) == t

ThreadPolicy(t) == decorated[th[t].target]

\* wrapper is entered by thread t: lines 32-35
TEnter(t, v) ==
    /\ th[t].pc \in {"idle", "done"}
    /\ LET a == InitialAttempt(frames[Frame(t)].attempt)
           d == InitialDelay(decorated[v].delay,
                             frames[Frame(t)].current_delay)
       IN  /\ frames' = [frames EXCEPT
                            ![Frame(t)] = [attempt |-> a, current_delay |-> d]]
           /\ th' = [th EXCEPT ![t] =
                  [pc |-> IF LoopGuard(a, decorated[v].max_attempts)
                          THEN "invoke" ELSE "done",
                   target |-> v, calls |-> 0, fails |-> 0, sleeps |-> <<>>,
                   result |-> IF LoopGuard(a, decorated[v].max_attempts)
                              THEN Pending ELSE ReturnedNone]]
    /\ UNCHANGED exceptThreads

\* thread t's transport call comes back: lines 36-45, up to the argument
\* of time.sleep being read
TAttempt(t, o) ==
    /\ th[t].pc = "invoke"
    /\ LET r == FuncOutcome(th[t].target, o)
           a == frames[Frame(t)].attempt + 1
           d == frames[Frame(t)].current_delay
       IN  IF r.kind = "raise" /\ IsRetryable(r.exc)
           THEN /\ frames' = [frames EXCEPT ![Frame(t)].attempt = a]
                /\ th' = [th EXCEPT ![t] =
                      IF Exhausted(a, ThreadPolicy(t).max_attempts)
                      THEN [@ EXCEPT !.pc = "done", !.calls = @ + 1,
                                     !.fails = @ + 1, !.result = r]
                      ELSE [@ EXCEPT !.pc = "sleep", !.calls = @ + 1,
                                     !.fails = @ + 1,
                                     !.sleeps = Append(@, d)]]
           ELSE /\ th' = [th EXCEPT ![t] =
                      [@ EXCEPT !.pc = "done", !.calls = @ + 1,
                                !.result = r]]
                /\ UNCHANGED frames
    /\ UNCHANGED exceptThreads

\* thread t's time.sleep returns: line 46 and the loop test of line 35
TSleep(t) ==
    /\ th[t].pc = "sleep"
    /\ frames' = [frames EXCEPT ![Frame(t)].current_delay =
                      NextDelay(@, ThreadPolicy(t).backoff)]
    /\ th' = [th EXCEPT ![t] =
          IF LoopGuard(frames[Frame(t)].attempt, ThreadPolicy(t).max_attempts)
          THEN [@ EXCEPT !.pc = "invoke"]
          ELSE [@ EXCEPT !.pc = "done", !.result = ReturnedNone]]
    /\ UNCHANGED exceptThreads

NextThreads ==
    \/ \E t \in Threads, v \in Verbs : TEnter(t, v)
    \/ \E t \in Threads, o \in TransportOutcomes : TAttempt(t, o)
    \/ \E t \in Threads : TSleep(t)

\* threads calling through one client
SpecThreads == InitThreads /\ [][NextThreads]_vars

----------------------------------------------------------------------------
\* the api_client fixture run under any pytest command line

\* conftest.py:43-50: the client is built from api_config
InitFixture ==
    /\ options \in Options
    /\ api_config \in ApiConfigs
    /\ LET args == ClientArgs(options, api_config)
       IN  /\ base_url = args.base_url
           /\ api_key = args.api_key
           /\ timeout = args.timeout
           /\ retry_count = args.retry_count
    /\ session_headers = SessionHeaders(api_key)
    /\ session_open = TRUE
    /\ phase = "yielded"
    /\ closes = 0
    /\ constructed = Constructed
    /\ decorated = [v \in Verbs |-> MethodPolicy(v)]
    /\ InitCall
    /\ InitThreadsIdle
    /\ InitConfigIdle
    /\ InitRunIdle
    /\ InitUserIdle

\* the tests' calls on the client the fixture built
SpecFixture == InitFixture /\ [][Next]_vars

----------------------------------------------------------------------------
\* ConfigManager

\* ConfigManager.__init__: lines 30-31; the client is one built with the
\* defaults and left alone
InitConfig ==
    /\ base_url \in BaseUrls
    /\ api_key = None
    /\ timeout = DefaultTimeout
    /\ retry_count = DefaultRetryCount
    /\ session_headers = SessionHeaders(api_key)
    /\ session_open = TRUE
    /\ phase = "yielded"
    /\ closes = 0
    /\ constructed = Constructed
    /\ decorated = [v \in Verbs |-> MethodPolicy(v)]
    /\ InitCall
    /\ InitThreadsIdle
    /\ config_file \in Files
    /\ config = LoadConfig(config_file)
    /\ answer = NoCall
    /\ config_before = config
    /\ updates = 0
    /\ InitSetupIdle
    /\ InitRunIdle
    /\ InitUserIdle

\* get_value(key, default)
CallGetValue(key, default) ==
    /\ answer' = [op |-> "get_value", key |-> key, default |-> default,
                  ret |-> GetValue(config, key, default)]
    /\ UNCHANGED <<exceptConfig, config_file, config, config_before,
                   updates>>

\* get_api_config(), get_web_config(), get_performance_config()
CallSection(op, name) ==
    /\ answer' = [op |-> op, key |-> name, default |-> EmptyDict,
                  ret |-> Section(config, name)]
    /\ UNCHANGED <<exceptConfig, config_file, config, config_before,
                   updates>>

GetApiConfig == CallSection("get_api_config", api)
GetWebConfig == CallSection("get_web_config", web)
GetPerformanceConfig == CallSection("get_performance_config", performance)

\* update_config(key, value)
CallUpdateConfig(key, value) ==
    /\ updates < MaxUpdates
    /\ updates' = updates + 1
    /\ config_before' = config
    /\ config' = UpdateConfig(config, key, value).config
    /\ answer' = [op |-> "update_config", key |-> key, default |-> value,
                  ret |-> IF UpdateConfig(config, key, value).raised
                          THEN Raised("TypeError")
                          ELSE Returned(PyNone, "none")]
    /\ UNCHANGED <<exceptConfig, config_file>>

NextConfig ==
    \/ \E key \in Keys, default \in Defaults : CallGetValue(key, default)
    \/ GetApiConfig
    \/ GetWebConfig
    \/ GetPerformanceConfig

\* a ConfigManager built on any file, and its readers
SpecConfig == InitConfig /\ [][NextConfig]_vars

InitUpdate ==
    /\ InitConfig
    /\ config_file \in SmallFiles

NextUpdate ==
    \/ \E key \in Keys, value \in UpdateValues : CallUpdateConfig(key, value)
    \/ \E key \in Keys, default \in Defaults : CallGetValue(key, default)

\* a ConfigManager that is updated and read
SpecUpdate == InitUpdate /\ [][NextUpdate]_vars

----------------------------------------------------------------------------
\* run_tests.py

TestTypes == {"api", "web", "performance", "all"}
SuiteOrder == <<"api", "web", "performance">>

\* exit statuses of pytest (0 all passed, 1 some test failed, 5 none
\* collected) and of the other commands
PytestStatuses == {0, 1, 5}
CommandStatuses == {0, 1}

\* stdout is the sequence of its whitespace-separated tokens: what pytest
\* prints when it exits 0
Tokens == {"passed", "xfailed", "test_login_failed", "====="}

\* "failed" in tok
ContainsFailed(tok) == tok \in {"xfailed", "test_login_failed"}

RECURSIVE TokenSeqs(_)
TokenSeqs(n) ==
    IF n = 0 THEN {<<>>}
    ELSE TokenSeqs(n - 1)
            \cup {Append(w, t) : w \in {x \in TokenSeqs(n - 1) : Len(x) = n - 1},
                                 t \in Tokens}

Stdouts == TokenSeqs(MaxTokens)

\* run_command: lines 26-34.  check=True turns a nonzero exit status
\* into CalledProcessError, and then None is returned
RunCommand(status, stdout) == IF status = 0 THEN Some(stdout) ELSE None

\* "failed" in output: "failed" holds no whitespace, so it is in the text
\* exactly when it is in one of its tokens
MentionsFailed(output) == \E i \in 1..Len(output) : ContainsFailed(output[i])

\* "failed" not in output.split()[-1]
LastTokenClean(output) == ~ContainsFailed(output[Len(output)])

\* run_api_tests / run_web_tests from the command on: lines 102-113
RunPytest(status, stdout) ==
    LET output == RunCommand(status, stdout)
    IN  IF output = None THEN FALSE
        ELSE IF MentionsFailed(output[1]) /\ LastTokenClean(output[1])
        THEN FALSE
        ELSE TRUE

Selected(suite) == test_type \in {suite, "all"}

\* where main goes once the first i - 1 suites are behind it: the next
\* `if args.test_type in [...]` that holds, or the summary
StepFrom(i) ==
    IF \E j \in i..3 : Selected(SuiteOrder[j])
    THEN SuiteOrder[CHOOSE j \in i..3 :
                       /\ Selected(SuiteOrder[j])
                       /\ \A k \in i..(j - 1) : ~Selected(SuiteOrder[k])]
    ELSE "summary"

\* success = returned: the last suite decides
SuccessAfterLast(previous_success, returned) == returned

\* if not run_xxx_tests(...): success = False
SuccessAfter(previous_success, returned) ==
    IF ~returned THEN FALSE ELSE previous_success

\* sys.exit(0) whatever happened
ExitStatusZero(ok) == 0

\* lines 250-255: sys.exit(0) if success else sys.exit(1)
ExitStatus(ok) == IF ok THEN 0 ELSE 1

\* a failed profile does not stop the run
StopsNever(output) == FALSE

\* if run_command(command) is None: return False
Stops(output) == output = None

\* if run_command("google-chrome --version") is not None
WebLoadRuns(probe) == probe # None

InitRun ==
    /\ base_url \in BaseUrls
    /\ api_key = None
    /\ timeout = DefaultTimeout
    /\ retry_count = DefaultRetryCount
    /\ session_headers = SessionHeaders(api_key)
    /\ session_open = TRUE
    /\ phase = "yielded"
    /\ closes = 0
    /\ constructed = Constructed
    /\ decorated = [v \in Verbs |-> MethodPolicy(v)]
    /\ InitCall
    /\ InitThreadsIdle
    /\ InitConfigIdle
    /\ InitSetupIdle
    /\ InitUserIdle
    /\ test_type \in TestTypes
    /\ mpc = "dependencies"
    /\ dependencies = "unchecked"
    /\ success = TRUE
    /\ exit_code = None
    /\ suites = <<>>
    /\ commands = <<>>

Ran(command, status, stdout) ==
    [command |-> command, status |-> status, stdout |-> stdout]

\* lines 223-232: if not check_dependencies(): sys.exit(1); success = True
CheckDependencies(ok) ==
    /\ mpc = "dependencies"
    /\ dependencies' = IF ok THEN "ok" ELSE "failed"
    /\ success' = TRUE
    /\ IF ok
       THEN /\ mpc' = StepFrom(1)
            /\ UNCHANGED exit_code
       ELSE /\ mpc' = "exited"
            /\ exit_code' = Some(1)
    /\ UNCHANGED <<exceptRun, test_type, suites, commands>>

\* a pytest suite of main: lines 234-240 with run_api_tests / run_web_tests
RunSuite(suite, i, status, stdout) ==
    /\ mpc = suite
    /\ commands' = Append(commands, Ran(suite, status, stdout))
    /\ suites' = Append(suites, [suite |-> suite,
                                 returned |-> Some(RunPytest(status, stdout))])
    /\ success' = SuccessAfter(success, RunPytest(status, stdout))
    /\ mpc' = StepFrom(i + 1)
    /\ UNCHANGED <<exceptRun, test_type, dependencies, exit_code>>

RunApiTests(status, stdout) == RunSuite("api", 1, status, stdout)
RunWebTests(status, stdout) == RunSuite("web", 2, status, stdout)

\* run_performance_tests returns r to main: lines 242-245
PerformanceReturns(r) ==
    /\ suites' = [suites EXCEPT ![Len(suites)].returned = Some(r)]
    /\ success' = SuccessAfter(success, r)
    /\ mpc' = "summary"

\* one load profile of run_performance_tests and the test on its result
Profile(at, command, status, next) ==
    /\ mpc = at
    /\ commands' = Append(commands, Ran(command, status, <<>>))
    /\ IF Stops(RunCommand(status, <<>>))
       THEN PerformanceReturns(FALSE)
       ELSE IF next = "return"
       THEN PerformanceReturns(TRUE)
       ELSE /\ mpc' = next
            /\ UNCHANGED <<suites, success>>
    /\ UNCHANGED <<exceptRun, test_type, dependencies, exit_code>>

\* main calls run_performance_tests, which runs the API load profile:
\* lines 242-243 and 165-174
ApiLoad(status) ==
    /\ mpc = "performance"
    /\ commands' = Append(commands, Ran("api_load", status, <<>>))
    /\ IF Stops(RunCommand(status, <<>>))
       THEN /\ suites' = Append(suites, [suite |-> "performance",
                                         returned |-> Some(FALSE)])
            /\ success' = SuccessAfter(success, FALSE)
            /\ mpc' = "summary"
       ELSE /\ suites' = Append(suites, [suite |-> "performance",
                                         returned |-> None])
            /\ mpc' = "probe"
            /\ UNCHANGED success
    /\ UNCHANGED <<exceptRun, test_type, dependencies, exit_code>>

\* line 177: the Chrome version probe
ChromeProbe(status) ==
    /\ mpc = "probe"
    /\ commands' = Append(commands, Ran("probe", status, <<>>))
    /\ mpc' = IF WebLoadRuns(RunCommand(status, <<>>)) THEN "web_load"
              ELSE "stress"
    /\ UNCHANGED <<exceptRun, test_type, dependencies, exit_code, suites,
                   success>>

\* lines 178-185
WebLoad(status) == Profile("web_load", "web_load", status, "stress")

\* lines 187-199
Stress(status) == Profile("stress", "stress", status, "return")

\* lines 247-255
Summary ==
    /\ mpc = "summary"
    /\ exit_code' = Some(ExitStatus(success))
    /\ mpc' = "exited"
    /\ UNCHANGED <<exceptRun, test_type, dependencies, success, suites,
                   commands>>

NextRun ==
    \/ \E ok \in BOOLEAN : CheckDependencies(ok)
    \/ \E status \in PytestStatuses, stdout \in Stdouts :
          RunApiTests(status, stdout)
    \/ \E status \in PytestStatuses, stdout \in Stdouts :
          RunWebTests(status, stdout)
    \/ \E status \in CommandStatuses : ApiLoad(status)
    \/ \E status \in CommandStatuses : ChromeProbe(status)
    \/ \E status \in CommandStatuses : WebLoad(status)
    \/ \E status \in CommandStatuses : Stress(status)
    \/ Summary

\* one run of run_tests.main
SpecRun == InitRun /\ [][NextRun]_vars

----------------------------------------------------------------------------
\* StabilityTestUser (stability_test.py)

\* the body of the `with` block of a task: lines 92-115.  The result is
\* "success" or "failure" (the argument of track_request) or the
\* exception that leaves the block: only ValueError is caught
Validate(status_code, body) ==
    IF status_code # 200 THEN "failure"
    ELSE IF body.kind = "text" THEN "failure"
    ELSE IF body.kind = "scalar" THEN "TypeError"
    ELSE IF ~({"status", "data"} \subseteq body.keys) THEN "failure"
    ELSE IF body.kind = "list" THEN "TypeError"
    ELSE IF ~body.status.mapping THEN "TypeError"
    ELSE IF body.status.error_code = None THEN "KeyError"
    ELSE IF body.status.error_code = Some(0) THEN "success"
    ELSE IF body.status.has_message THEN "failure"
    ELSE "KeyError"

\* track_request: lines 68-72
TrackRequest(u, ok) ==
    [u EXCEPT !.request_count = @ + 1,
              !.success_count = IF ok THEN @ + 1 ELSE @,
              !.failure_count = IF ok THEN @ ELSE @ + 1]

\* what a task execution makes of the user, given how validation ended
UserAfter(u, outcome) ==
    IF outcome \in {"success", "failure"}
    THEN TrackRequest(u, outcome = "success")
    ELSE u

\* on_start: lines 38-40
OnStart ==
    /\ ~user.started
    /\ user' = [started |-> TRUE, request_count |-> 0, success_count |-> 0,
                failure_count |-> 0]
    /\ UNCHANGED <<exceptUser, executed, last_task>>

\* one execution of a task whose request completed with this response
Task(task, status_code, body) ==
    /\ user.started
    /\ executed < MaxTasks
    /\ executed' = executed + 1
    /\ user' = UserAfter(user, Validate(status_code, body))
    /\ last_task' = [task |-> task, status |-> status_code, body |-> body,
                     outcome |-> Validate(status_code, body)]
    /\ UNCHANGED exceptUser

InitUser ==
    /\ base_url \in BaseUrls
    /\ api_key = None
    /\ timeout = DefaultTimeout
    /\ retry_count = DefaultRetryCount
    /\ session_headers = SessionHeaders(api_key)
    /\ session_open = TRUE
    /\ phase = "yielded"
    /\ closes = 0
    /\ constructed = Constructed
    /\ decorated = [v \in Verbs |-> MethodPolicy(v)]
    /\ InitCall
    /\ InitThreadsIdle
    /\ InitConfigIdle
    /\ InitSetupIdle
    /\ InitRunIdle
    /\ InitUserIdle

NextUser ==
    \/ OnStart
    \/ \E task \in Tasks, status_code \in StatusCodes, body \in Bodies :
          Task(task, status_code, body)

\* one StabilityTestUser from its spawning on
SpecUser == InitUser /\ [][NextUser]_vars

----------------------------------------------------------------------------
\* calls through the methods of a constructed ApiClient
Spec == Init /\ [][Next]_vars

\* calls through a function decorated with an arbitrary retry policy
SpecRetry == InitRetry /\ [][NextRetry]_vars

\* the client, given that every transport call and every sleep returns
FairSpec == Spec /\ WF_vars(Attempt) /\ WF_vars(Sleep)

----------------------------------------------------------------------------
\* Vocabulary of the properties

N == policy.max_attempts

InCall == pc # "idle"

\* what the i-th invocation of the current call did
Outcome(i) == FuncOutcome(target, trace[i])

IsFailure(r) == r.kind = "raise" /\ r.exc \in RequestExceptionClasses
IsSuccess(r) == r.kind = "response"
IsUncaught(r) == r.kind = "raise" /\ r.exc \notin RequestExceptionClasses

\* every invocation so far raised a retryable exception
AllFailed == \A i \in 1..Len(trace) : IsFailure(Outcome(i))

IsStep(e) == e.type \in {"invoke", "sleep"}

\* invocations and sleeps strictly alternate, starting with an invocation
Alternates ==
    LET st == SelectSeq(events, IsStep)
    IN  /\ Len(st) = Len(trace) + Len(sleeps)
        /\ \A i \in 1..Len(st) :
              st[i].type = (IF i % 2 = 1 THEN "invoke" ELSE "sleep")

LastEvent == events[Len(events)]

----------------------------------------------------------------------------
\* C1: for every max_attempts = N >= 1, a call whose wrapped function raises
\* a retryable exception on every attempt has, when it ends, invoked the
\* function exactly N times and slept exactly N-1 times, one sleep between
\* each two consecutive invocations and none after the last, and it ends by
\* raising; it does not end before the N-th invocation.
C1_AlwaysFailingCall ==
    (InCall /\ N >= 1 /\ AllFailed) =>
        /\ Len(trace) <= N
        /\ Alternates
        /\ (pc = "done") <=> (Len(trace) = N)
        /\ (pc = "done") =>
              /\ Len(sleeps) = N - 1
              /\ result.kind = "raise"
              /\ LastEvent.type = "error"
        /\ (pc # "done") => result.kind = "pending"

C1_Witness ==
    /\ pc = "done"
    /\ N = MaxAttemptsBound
    /\ AllFailed
    /\ Len(trace) = N
    /\ Len(sleeps) = N - 1
    /\ result.kind = "raise"

----------------------------------------------------------------------------
\* C3: a call whose function fails with retryable exceptions on attempts
\* 1..k-1 and succeeds on attempt k <= N makes exactly k invocations and k-1
\* sleeps and returns the value of the k-th invocation, with nothing after
\* the success: while fewer than N attempts have all failed the call goes
\* on, a success ends it at once, and a returned value is the last
\* invocation's.  With max_attempts=3, delay=1, backoff=2 and two failures
\* then a success the call sleeps 1 then 2.
C3_SuccessOnKth ==
    InCall =>
        /\ (N >= 1 /\ AllFailed /\ Len(trace) < N) =>
              pc \in {"invoke", "sleep"}
        /\ \A k \in 1..Len(trace) :
              IsSuccess(Outcome(k)) =>
                 /\ k = Len(trace)
                 /\ k <= N
                 /\ pc = "done"
                 /\ result = Outcome(k)
                 /\ Len(sleeps) = k - 1
                 /\ Alternates
                 /\ LastEvent.type = "invoke"
                 /\ \A i \in 1..(k - 1) : IsFailure(Outcome(i))
                 /\ (N = 3 /\ policy.delay = 1 /\ policy.backoff = 2
                       /\ k = 3) => sleeps = <<1, 2>>
        /\ (result.kind = "response") =>
              (Len(trace) >= 1 /\ IsSuccess(Outcome(Len(trace))))

C3_Witness ==
    /\ pc = "done"
    /\ N = 3 /\ policy.delay = 1 /\ policy.backoff = 2
    /\ Len(trace) = 3
    /\ IsFailure(Outcome(1)) /\ IsFailure(Outcome(2))
    /\ result = Response(200)
    /\ sleeps = <<1, 2>>

----------------------------------------------------------------------------
\* C4: within one call the sleeps are delay, delay*backoff,
\* delay*backoff^2, ...: the i-th sleep (i = 0..N-2) lasts delay*backoff^i,
\* and the delay held for the next sleep is delay*backoff^(sleeps so far).
C4_DelaySequence ==
    InCall =>
        /\ \A i \in 1..Len(sleeps) :
              sleeps[i] = policy.delay * policy.backoff ^ (i - 1)
        /\ \A i \in 2..Len(sleeps) :
              sleeps[i] = sleeps[i - 1] * policy.backoff
        /\ (N >= 1) => Len(sleeps) <= N - 1
        /\ current_delay = policy.delay * policy.backoff ^ Len(sleeps)

C4_Witness ==
    /\ InCall
    /\ policy.delay = 2 /\ policy.backoff = 3
    /\ sleeps = <<2, 6, 18>>

----------------------------------------------------------------------------
\* C8: when the final permitted attempt (the N-th) fails, the call ends
\* there: no sleep follows it and no invocation (the wrapper has exited),
\* the error is logged, and the caller receives the very exception that
\* attempt raised, which belongs to the retryable category; a call that
\* ends with its attempts used up ends no other way.
FinalAttemptFailed ==
    /\ InCall
    /\ N >= 1
    /\ Len(trace) = N
    /\ IsFailure(Outcome(N))

C8_ExhaustionPropagates ==
    /\ FinalAttemptFailed =>
          /\ pc = "done"
          /\ attempt = N
          /\ result = Outcome(N)
          /\ result.kind = "raise"
          /\ result.exc \in RequestExceptionClasses
          /\ Len(sleeps) = N - 1
          /\ LastEvent.type = "error"
          /\ Alternates
    /\ (InCall /\ N >= 1 /\ pc = "done" /\ attempt = N) =>
          FinalAttemptFailed

C8_Witness ==
    /\ FinalAttemptFailed
    /\ N = 3
    /\ pc = "done"
    /\ Outcome(1) = Raises("ConnectionError", 0)
    /\ result = Raises("Timeout", 0)

----------------------------------------------------------------------------
\* C9: an attempt that raises an exception outside the retryable set ends
\* the call at that invocation: the exception reaches the caller unchanged,
\* the attempt is not counted, nothing is logged for it and no sleep or
\* invocation follows it.
C9_UncaughtPropagates ==
    InCall =>
        /\ \A i \in 1..Len(trace) :
              IsUncaught(Outcome(i)) =>
                 /\ i = Len(trace)
                 /\ pc = "done"
                 /\ result = Outcome(i)
                 /\ attempt = i - 1
                 /\ Len(sleeps) = i - 1
                 /\ LastEvent.type = "invoke"
        /\ (result.kind = "raise" /\ result.exc \notin RequestExceptionClasses)
              => (Len(trace) >= 1 /\ result = Outcome(Len(trace)))

C9_Witness ==
    /\ pc = "done"
    /\ Len(trace) = 2
    /\ IsFailure(Outcome(1))
    /\ result = Raises("ValueError", 0)
    /\ sleeps = <<policy.delay>>

----------------------------------------------------------------------------
\* Vocabulary of the properties about ApiClient

InVerbCall == InCall /\ target \in Verbs

IsErrorStatus(o) == o.kind = "response" /\ o.status \in 400..599

HasKeyHeader(h) == \E pair \in h : pair[1] = KeyHeader

IsProperPrefix(s, t) ==
    Len(s) < Len(t) /\ \A i \in 1..Len(s) : s[i] = t[i]

----------------------------------------------------------------------------
\* C2: the retry count given at construction governs the number of tries of
\* get/post/put/delete: a call makes at most retry_count transport calls,
\* and a client built with a maximum of 2 whose transport fails every time
\* makes exactly 2 calls, sleeps once for the base delay and then raises.
C2_RetryCountGovernsTries ==
    InVerbCall =>
        /\ Len(trace) <= retry_count
        /\ (retry_count = 2 /\ AllFailed /\ pc = "done") =>
              /\ Len(trace) = 2
              /\ sleeps = <<policy.delay>>
              /\ result.kind = "raise"

----------------------------------------------------------------------------
\* C5: a response with a 4xx or 5xx status is never returned by
\* get/post/put/delete: the attempt is counted as a failure, a retry
\* follows while attempts remain, and on the last attempt the error is
\* raised to the caller.
C5_ErrorStatusIsFailure ==
    InVerbCall =>
        /\ \A i \in 1..Len(trace) :
              IsErrorStatus(trace[i]) =>
                 /\ attempt >= i
                 /\ result # trace[i]
                 /\ (i = Len(trace) /\ i < N) =>
                       (pc \in {"sleep", "invoke"} /\ result.kind = "pending")
                 /\ (i = N) =>
                       /\ pc = "done"
                       /\ result = Raises("HTTPError", trace[i].status)
        /\ (result.kind = "response") => result.status \notin 400..599

C5_Witness ==
    /\ InVerbCall
    /\ pc = "done"
    /\ trace = <<Response(404), Response(503), Response(404)>>
    /\ result = Raises("HTTPError", 404)
    /\ Len(sleeps) = 2

----------------------------------------------------------------------------
\* C6, as claimed: the value returned to the caller by get/post/put/delete
\* always has a 2xx status.
C6_ReturnedIs2xx ==
    (InVerbCall /\ result.kind = "response") => result.status \in 200..299

\* C6, amended: only 4xx and 5xx responses are surfaced as errors and
\* retried; a response with any other status, 2xx or not (such as 304), is
\* returned by the invocation that received it, without retry, so the
\* value returned always has a status below 400.
C6_ReturnedBelow400 ==
    InVerbCall =>
        /\ (result.kind = "response") => result.status < 400
        /\ \A i \in 1..Len(trace) :
              (trace[i].kind = "response" /\ trace[i].status < 400) =>
                 /\ i = Len(trace)
                 /\ pc = "done"
                 /\ result = trace[i]
                 /\ attempt = i - 1
                 /\ Len(sleeps) = i - 1

C6_Witness ==
    /\ InVerbCall
    /\ pc = "done"
    /\ trace = <<Response(503), Response(304)>>
    /\ result = Response(304)

----------------------------------------------------------------------------
\* C7, as claimed: every request sent carries the key header with the
\* configured key if and only if an API key was supplied at construction
\* (api_key is not None), and no key header when none was supplied.
C7_KeyHeaderIffSupplied ==
    \A i \in 1..Len(wire) :
        IF api_key # None
        THEN <<KeyHeader, api_key[1]>> \in wire[i].headers
        ELSE ~HasKeyHeader(wire[i].headers)

\* C7, amended: every request sent, on the first attempt and on each retry,
\* carries the key header with the configured key if and only if a
\* non-empty API key was supplied at construction; with None or the empty
\* string the header is absent.  The other headers are the two defaults.
C7_KeyHeaderIffNonEmpty ==
    \A i \in 1..Len(wire) :
        /\ IF api_key # None /\ api_key[1] # ""
           THEN /\ <<KeyHeader, api_key[1]>> \in wire[i].headers
                /\ \A pair \in wire[i].headers :
                      pair[1] = KeyHeader => pair[2] = api_key[1]
           ELSE ~HasKeyHeader(wire[i].headers)
        /\ DefaultHeaders \subseteq wire[i].headers

C7_Witness ==
    /\ api_key = Some("secret")
    /\ Len(wire) = 3
    /\ \A i \in 1..3 : <<KeyHeader, "secret">> \in wire[i].headers

----------------------------------------------------------------------------
\* C10: the retry policy is the same for the four verbs.  Whatever the
\* transport does, a completed call of any verb and a completed get that
\* met the same outcomes slept the same delays and ended the same way, and
\* neither stopped at an invocation where the other went on (no completed
\* call's outcomes are a proper prefix of the other's).  A post can
\* therefore send its request more than once.
C10_SameRetryPolicy ==
    (InVerbCall /\ pc = "done" /\ lastGet # NoGet) =>
        /\ ~IsProperPrefix(trace, lastGet.trace)
        /\ ~IsProperPrefix(lastGet.trace, trace)
        /\ (trace = lastGet.trace) =>
              /\ sleeps = lastGet.sleeps
              /\ result = lastGet.result
              /\ Len(wire) = Len(lastGet.trace)

C10_Witness ==
    /\ pc = "done"
    /\ target = "post"
    /\ Len(wire) = 3
    /\ \A i \in 1..3 : wire[i].method = "post"
    /\ trace = lastGet.trace
    /\ sleeps = <<1, 2>>
    /\ result = Response(200)

----------------------------------------------------------------------------
\* C11: every call of a client method ends, given that each transport call
\* and each sleep returns: a call in progress leads to a completed one, it
\* never makes more than max_attempts invocations, and it ends either by
\* returning the response of its last, successful invocation or by raising,
\* never any other way.
C11_CallEnds ==
    /\ [](InVerbCall =>
            /\ Len(trace) <= N
            /\ Len(sleeps) <= N - 1
            /\ (pc = "done") =>
                  \/ /\ result.kind = "response"
                     /\ Len(trace) >= 1
                     /\ IsSuccess(Outcome(Len(trace)))
                     /\ result = Outcome(Len(trace))
                  \/ result.kind = "raise")
    /\ (pc \in {"invoke", "sleep"}) ~> (pc = "done")

C11_Witness ==
    /\ InVerbCall
    /\ pc = "done"
    /\ Len(trace) = N
    /\ result.kind = "raise"
    /\ result.exc = "ConnectionError"

----------------------------------------------------------------------------
\* C12: calls on one client are independent.  Whatever earlier calls did,
\* a call starts with attempt 0 and the base delay, its attempt counter
\* counts its own failures only, its delays restart at the base delay, and
\* while fewer than max_attempts of its own attempts have failed it goes
\* on: a call made after an exhausted one is tried max_attempts times again.
OwnFailures == Cardinality({i \in 1..Len(trace) : IsFailure(Outcome(i))})

C12_CallsIndependent ==
    InVerbCall =>
        /\ attempt = OwnFailures
        /\ (trace = <<>>) =>
              (pc = "invoke" /\ attempt = 0 /\ current_delay = policy.delay)
        /\ current_delay = policy.delay * policy.backoff ^ Len(sleeps)
        /\ (Len(sleeps) >= 1) => sleeps[1] = policy.delay
        /\ (AllFailed /\ Len(trace) < N) => pc \in {"invoke", "sleep"}
        /\ (pc = "done" /\ AllFailed) => Len(trace) = N

C12_Witness ==
    /\ pc = "done"
    /\ target = "post"
    /\ lastGet.result.kind = "raise"
    /\ Len(lastGet.trace) = 3
    /\ lastGet.sleeps = <<1, 2>>
    /\ AllFailed
    /\ Len(trace) = 3
    /\ sleeps = <<1, 2>>
    /\ result.kind = "raise"

----------------------------------------------------------------------------
\* C13: when several threads call through one client at once, each call's
\* attempt counter and delay are its own.  Under every interleaving the
\* counter of a call equals the number of its own failed attempts, the call
\* makes at most max_attempts invocations, raises for exhaustion exactly
\* when max_attempts of its own attempts failed, and sleeps delay,
\* delay*backoff, ... from the base delay; and a thread's next step is
\* never held up by another thread (there is no lock to wait on).
ThreadStepEnabled(t) ==
    CASE th[t].pc = "invoke" ->
            ENABLED (\E o \in TransportOutcomes : TAttempt(t, o))
      [] th[t].pc = "sleep" -> ENABLED TSleep(t)
      [] OTHER -> ENABLED (\E v \in Verbs : TEnter(t, v))

C13_ThreadsPrivate ==
    \A t \in Threads :
        /\ ThreadStepEnabled(t)
        /\ (th[t].pc # "idle") =>
              LET c == th[t]
                  p == ThreadPolicy(t)
                  f == frames[Frame(t)]
              IN  /\ f.attempt = c.fails
                  /\ c.calls <= p.max_attempts
                  /\ \A i \in 1..Len(c.sleeps) :
                        c.sleeps[i] = p.delay * p.backoff ^ (i - 1)
                  /\ (c.pc = "sleep") =>
                        f.current_delay = c.sleeps[Len(c.sleeps)]
                  /\ (c.pc = "done") =>
                        /\ Len(c.sleeps) = c.calls - 1
                        /\ c.result.kind \in {"response", "raise"}
                        /\ (c.fails = c.calls) <=>
                              (c.calls = p.max_attempts
                                  /\ c.result.kind = "raise"
                                  /\ c.result.exc \in RequestExceptionClasses)
                  /\ (c.pc # "done") => c.fails = c.calls

C13_Witness ==
    /\ th[1].pc = "sleep"
    /\ th[1].sleeps = <<1, 2>>
    /\ th[2].pc = "done"
    /\ th[2].calls = 3
    /\ th[2].result = Raises("HTTPError", 503)

----------------------------------------------------------------------------
\* C14: the client configuration is immutable after construction: after
\* any sequence of get, post, put, delete, the convenience methods and
\* close, the base URL, API key, timeout, retry count and session headers
\* are the values construction fixed, and every request sent carried
\* those headers and that timeout.
C14_ConfigImmutable ==
    /\ base_url = constructed.base_url
    /\ api_key = constructed.api_key
    /\ timeout = constructed.timeout
    /\ retry_count = constructed.retry_count
    /\ session_headers = constructed.headers
    /\ constructed.headers = SessionHeaders(constructed.api_key)
    /\ \A i \in 1..Len(wire) :
          /\ wire[i].headers = constructed.headers
          /\ wire[i].timeout = constructed.timeout

C14_Witness ==
    /\ phase = "torndown"
    /\ closes = 1
    /\ entry = "get_cryptocurrency_info"
    /\ Len(wire) = 3
    /\ lastGet # NoGet
    /\ api_key = Some("secret")
    /\ session_headers = DefaultHeaders \cup {<<KeyHeader, "secret">>}

----------------------------------------------------------------------------
\* C15: the session is open from construction until close(): no step of a
\* call (return, retry, exhaustion) releases it, only the fixture's
\* teardown does, and the fixture calls close() exactly once, when no call
\* is in progress, after which no call is made through the client.
C15_SessionLifecycle ==
    /\ [](/\ session_open <=> (phase = "yielded")
          /\ closes = (IF phase = "torndown" THEN 1 ELSE 0)
          /\ (phase = "torndown") => pc \in {"idle", "done"})
    /\ [][/\ (session_open /\ ~session_open') =>
                (phase = "yielded" /\ phase' = "torndown"
                    /\ closes' = closes + 1 /\ UNCHANGED callVars)
          /\ (phase = "torndown") =>
                (phase' = "torndown" /\ UNCHANGED <<callVars, histVars>>)
         ]_vars

C15_Witness ==
    /\ phase = "torndown"
    /\ ~session_open
    /\ closes = 1
    /\ pc = "done"
    /\ result.kind = "raise"
    /\ Len(trace) = 3

----------------------------------------------------------------------------
\* Vocabulary of the properties about the log

IsWarning(e) == e.type = "warning"
IsError(e) == e.type = "error"

Warnings == SelectSeq(events, IsWarning)
Errors == SelectSeq(events, IsError)

\* where in events the i-th invocation of the call stands
InvokePos(i) ==
    CHOOSE j \in 1..Len(events) :
        /\ events[j].type = "invoke"
        /\ Cardinality({k \in 1..j : events[k].type = "invoke"}) = i

\* the kind of entry that follows the i-th invocation, if any
AfterInvoke(i) ==
    IF InvokePos(i) < Len(events) THEN events[InvokePos(i) + 1].type
    ELSE "nothing"

----------------------------------------------------------------------------
\* C16: every failed attempt that is followed by a retry is logged exactly
\* once, right after the invocation and before the sleep; the i-th such
\* entry carries the attempt number i (1-based) and a wait equal to the
\* delay that is then slept.
C16_RetryLogged ==
    InCall =>
        /\ Len(events) = Len(trace) + Len(Warnings) + Len(sleeps) + Len(Errors)
        /\ Len(Warnings) = Len(sleeps) + (IF pc = "sleep" THEN 1 ELSE 0)
        /\ \A i \in 1..Len(Warnings) :
              /\ Warnings[i].attempt = i
              /\ IsFailure(Outcome(i))
              /\ AfterInvoke(i) = "warning"
              /\ (i <= Len(sleeps)) => Warnings[i].wait = sleeps[i]
        /\ \A j \in 1..Len(events) :
              (events[j].type = "sleep") =>
                 /\ j > 1
                 /\ events[j - 1].type = "warning"
                 /\ events[j - 1].wait = events[j].wait
        /\ (pc = "sleep") =>
              (LastEvent.type = "warning" /\ LastEvent.wait = current_delay)
        /\ (pc = "invoke" /\ Len(trace) >= 1) => Len(Warnings) = Len(trace)

C16_Witness ==
    /\ pc = "done"
    /\ policy.delay = 2 /\ policy.backoff = 3
    /\ Len(Warnings) = 3
    /\ Warnings[3] = Event("warning", 3, 18)
    /\ sleeps = <<2, 6, 18>>

----------------------------------------------------------------------------
\* C17: on exhaustion exactly one error-level entry is written, after the
\* last invocation and before the caller receives the exception (it is the
\* last thing the call does), naming max_attempts; a call that ends any
\* other way, a success in particular, writes none.
C17_ExhaustionLoggedOnce ==
    InCall =>
        /\ FinalAttemptFailed =>
              /\ Len(Errors) = 1
              /\ Errors[1].attempt = N
              /\ LastEvent.type = "error"
              /\ events[Len(events) - 1].type = "invoke"
              /\ AfterInvoke(N) = "error"
              /\ result.kind = "raise"
        /\ (~FinalAttemptFailed) => Len(Errors) = 0
        /\ (result.kind = "response") => Len(Errors) = 0

C17_Witness ==
    /\ FinalAttemptFailed
    /\ N = 3
    /\ pc = "done"
    /\ Len(Errors) = 1
    /\ Len(Warnings) = 2

----------------------------------------------------------------------------
\* C18, as claimed: every exception raised by an attempt is logged by the
\* client, and then retried or propagated, so a failure that reaches the
\* caller of get/post/put/delete has been logged; and no call returns
\* normally having dropped an exception.
C18_EveryFailureLogged ==
    InVerbCall =>
        /\ \A i \in 1..Len(trace) :
              (Outcome(i).kind = "raise") =>
                 AfterInvoke(i) \in {"warning", "error"}
        /\ (result.kind = "raise") => LastEvent.type = "error"
        /\ result.kind # "none"

\* C18, amended: every exception of the retryable category raised by an
\* attempt is logged and then retried (a warning) or propagated (the
\* error); an exception outside that category reaches the caller at once
\* and unchanged but is not logged by the client; and no call returns
\* normally having dropped an exception: a call that returns returns the
\* response of its last invocation.
C18_RetryableFailuresLogged ==
    InVerbCall =>
        /\ \A i \in 1..Len(trace) :
              /\ (Outcome(i).kind = "raise"
                     /\ Outcome(i).exc \in RequestExceptionClasses) =>
                    /\ AfterInvoke(i) \in {"warning", "error"}
                    /\ (AfterInvoke(i) = "warning") =>
                          (i < Len(trace) \/ pc \in {"sleep", "invoke"})
                    /\ (AfterInvoke(i) = "error") =>
                          (i = Len(trace) /\ result = Outcome(i))
              /\ (Outcome(i).kind = "raise"
                     /\ Outcome(i).exc \notin RequestExceptionClasses) =>
                    /\ AfterInvoke(i) = "nothing"
                    /\ i = Len(trace)
                    /\ result = Outcome(i)
        /\ (result.kind = "raise"
               /\ result.exc \in RequestExceptionClasses) =>
              LastEvent.type = "error"
        /\ result.kind # "none"
        /\ (pc = "done") => result.kind \in {"response", "raise"}
        /\ (result.kind = "response") => result = Outcome(Len(trace))

C18_Witness ==
    /\ InVerbCall
    /\ pc = "done"
    /\ Len(trace) = 2
    /\ Outcome(1) = Raises("HTTPError", 404)
    /\ AfterInvoke(1) = "warning"
    /\ result = Raises("ValueError", 0)
    /\ AfterInvoke(2) = "nothing"

----------------------------------------------------------------------------
\* Vocabulary of the properties about ConfigManager

Missing == [kind |-> "missing", items |-> NoItems, v |-> 0]

\* the dotted string the segments p spell
RECURSIVE Join(_)
Join(p) ==
    IF Len(p) = 1 THEN p[1] ELSE p[1] \o <<".">> \o Join(Tail(p))

\* what stands in cfg i segments down the path p, if anything does
RECURSIVE ValueAt(_, _, _)
ValueAt(cfg, p, i) ==
    IF i = 0 THEN cfg
    ELSE LET parent == ValueAt(cfg, p, i - 1)
         IN  IF parent.kind = "dict" /\ p[i] \in DOMAIN parent.items
             THEN parent.items[p[i]]
             ELSE Missing

\* every segment of p is a key of the mapping reached before it
Found(cfg, p) == \A i \in 1..Len(p) : ValueAt(cfg, p, i) # Missing

AfterGetValue == answer.op = "get_value"
AfterSection ==
    answer.op \in {"get_api_config", "get_web_config",
                   "get_performance_config"}

----------------------------------------------------------------------------
\* C19: get_value(key, default) returns the value stored at the dotted
\* path key, and returns default exactly when some segment of the path is
\* missing from its parent mapping or the parent reached is not a mapping;
\* it never raises, and it leaves the configuration as it was.
C19_GetValue ==
    /\ [](AfterGetValue =>
            LET path == Split(answer.key)
            IN  /\ Len(path) >= 1
                /\ Join(path) = answer.key
                /\ \A i \in 1..Len(path) :
                       \A j \in 1..Len(path[i]) : path[i][j] # "."
                /\ answer.ret.kind = "return"
                /\ Found(config, path) =>
                      /\ answer.ret.via = "value"
                      /\ answer.ret.value = ValueAt(config, path, Len(path))
                /\ (~Found(config, path)) =>
                      /\ answer.ret.via = "default"
                      /\ answer.ret.value = answer.default)
    /\ [][(answer'.op = "get_value") => config' = config]_vars

\* a nested value is found, and a non-mapping parent gives the default
C19_Witness ==
    /\ AfterGetValue
    /\ answer.key = <<"a", ".", "b">>
    /\ answer.default = PyInt(0)
    /\ \/ /\ Found(config, <<<<"a">>, <<"b">>>>)
          /\ <<"a", ".", "b">> \in DOMAIN config.items
          /\ answer.ret = Returned(PyNone, "value")
       \/ /\ IsDict(config)
          /\ <<"a">> \in DOMAIN config.items
          /\ config.items[<<"a">>] = PyList
          /\ answer.ret = Returned(PyInt(0), "default")

----------------------------------------------------------------------------
\* C20: after construction config is a dict whatever the file holds or
\* whether it exists, and get_api_config, get_web_config and
\* get_performance_config return a dict and never raise.
C20_ConfigAlwaysDict ==
    /\ IsDict(config)
    /\ AfterSection =>
          /\ answer.ret.kind = "return"
          /\ IsDict(answer.ret.value)

----------------------------------------------------------------------------
\* C23: every attempt of one call hands the transport the same request:
\* the URL is the base URL followed by the endpoint, the query parameters
\* or the body are those the caller passed, and the timeout is the
\* configured one, on the first attempt and on every retry.
C23_SameRequestEveryAttempt ==
    InVerbCall =>
        /\ Len(wire) = Len(trace)
        /\ \A i \in 1..Len(wire) :
              /\ wire[i] = wire[1]
              /\ wire[i].method = target
              /\ wire[i].url = constructed.base_url \o endpoint
              /\ wire[i].timeout = constructed.timeout
              /\ wire[i].params = (IF IsBodyVerb(target) THEN None ELSE params)
              /\ wire[i].data = (IF IsBodyVerb(target) THEN params ELSE None)

\* a post with a body, sent three times
C23_Witness ==
    /\ pc = "done"
    /\ target = "post"
    /\ Len(wire) = 3
    /\ wire[3].data = Some({<<"name", "BTC">>})
    /\ wire[3].url = "https://api.example/v1/cryptocurrency/listings/latest"

----------------------------------------------------------------------------
\* C24: the convenience methods add no retry layer: a call of one of them
\* is one call of get, so when the transport always fails it makes
\* max_attempts transport invocations, as a call of get does, and raises
\* the exception of the last one.
C24_GettersAddNoLayer ==
    (InCall /\ entry \in Getters) =>
        /\ target = "get"
        /\ Len(trace) <= decorated["get"].max_attempts
        /\ \A i \in 1..Len(wire) : wire[i].method = "get"
        /\ (pc = "done" /\ AllFailed) =>
              /\ Len(trace) = decorated["get"].max_attempts
              /\ Len(sleeps) = decorated["get"].max_attempts - 1
              /\ result = Outcome(Len(trace))
              /\ lastGet =
                    [trace |-> trace, sleeps |-> sleeps, result |-> result]

C24_Witness ==
    /\ entry = "get_exchange_listings"
    /\ pc = "done"
    /\ AllFailed
    /\ Len(trace) = 3
    /\ result = Raises("HTTPError", 503)

----------------------------------------------------------------------------
\* C25: with max_attempts <= 0 a call through the wrapper never invokes
\* the wrapped function, never sleeps, logs nothing, raises nothing and
\* returns None.
C25_NoAttemptsAllowed ==
    (InCall /\ N <= 0) =>
        /\ pc = "done"
        /\ trace = <<>>
        /\ wire = <<>>
        /\ sleeps = <<>>
        /\ events = <<>>
        /\ result = ReturnedNone

C25_Witness ==
    /\ InCall
    /\ N <= 0
    /\ result = ReturnedNone

----------------------------------------------------------------------------
\* C22: the options --api-url and --api-key determine the client under
\* test: when one is given, the client the fixture builds has that base
\* URL (that key) and not the configuration file's.
C22_OptionsDetermineClient ==
    /\ (options.api_url # None) =>
          /\ constructed.base_url = options.api_url[1]
          /\ \A i \in 1..Len(wire) :
                wire[i].url = options.api_url[1] \o endpoint
    /\ (options.api_key # None) =>
          /\ constructed.api_key = options.api_key
          /\ <<KeyHeader, options.api_key[1]>> \in constructed.headers

----------------------------------------------------------------------------
\* Vocabulary of the properties about update_config

\* the paths of segments that lead somewhere in cfg
RECURSIVE PathsIn(_)
PathsIn(cfg) ==
    IF ~IsDict(cfg) THEN {<<>>}
    ELSE {<<>>} \cup UNION {{<<k>> \o q : q \in PathsIn(cfg.items[k])} :
                               k \in DOMAIN cfg.items}

IsPrefix(p, q) == Len(p) <= Len(q) /\ \A i \in 1..Len(p) : p[i] = q[i]

\* p neither leads to the entry at q nor passes through it nor lies on
\* the way to it
OffPath(p, q) == ~IsPrefix(p, q) /\ ~IsPrefix(q, p)

AfterUpdate == answer.op = "update_config"

----------------------------------------------------------------------------
\* C29: for every dotted key k and value v, update_config(k, v) returns,
\* get_value(k) then returns v (missing intermediate mappings having been
\* created), and every entry of the configuration that is not on the path
\* of k has the value it had before.
C29_UpdateThenGet ==
    AfterUpdate =>
        /\ answer.ret.kind = "return"
        /\ GetValue(config, answer.key, Missing)
              = Returned(answer.default, "value")
        /\ \A p \in PathsIn(config_before) :
              OffPath(p, Split(answer.key)) =>
                 ValueAt(config, p, Len(p)) = ValueAt(config_before, p, Len(p))

\* C29 where it does hold: when no proper prefix of the path of k leads
\* to a value that is not a mapping
C29_UpdateThroughMappings ==
    (AfterUpdate
        /\ \A i \in 0..(Len(Split(answer.key)) - 1) :
              ValueAt(config_before, Split(answer.key), i).kind
                 \in {"dict", "missing"})
      => C29_UpdateThenGet

----------------------------------------------------------------------------
\* Vocabulary of the properties about run_tests.py

IsPerfCommand(c) == c.command \in {"api_load", "probe", "web_load", "stress"}
IsProfile(c) == c.command \in {"api_load", "web_load", "stress"}

\* the commands run_performance_tests has run, in order
PerfCommands == SelectSeq(commands, IsPerfCommand)

Started(suite) == \E j \in 1..Len(suites) : suites[j].suite = suite

ReturnedTrue(suite) ==
    \E j \in 1..Len(suites) :
        suites[j].suite = suite /\ suites[j].returned = Some(TRUE)

SomeReturnedFalse ==
    \E j \in 1..Len(suites) : suites[j].returned = Some(FALSE)

----------------------------------------------------------------------------
\* C21: run_api_tests and run_web_tests return True exactly when the
\* pytest command ran and no test failed (pytest exited with status 0),
\* whatever the output text mentions.
C21_PytestResult ==
    \A i \in 1..Len(commands) :
        (commands[i].command \in {"api", "web"}) =>
            \E j \in 1..Len(suites) :
                /\ suites[j].suite = commands[i].command
                /\ suites[j].returned = Some(commands[i].status = 0)

----------------------------------------------------------------------------
----------------------------------------------------------------------------
\* C27: with --test-type all the api, web and performance suites are each
\* started exactly once, in that order, whatever the earlier ones
\* returned, and a False from any of them is never overwritten by a
\* later True.
C27_FailureDoesNotStop ==
    (test_type = "all" /\ dependencies = "ok") =>
        /\ Len(suites) <= 3
        /\ \A j \in 1..Len(suites) : suites[j].suite = SuiteOrder[j]
        /\ (mpc \in {"summary", "exited"}) =>
              /\ Len(suites) = 3
              /\ \A j \in 1..3 : suites[j].returned # None
        /\ success <=> ~SomeReturnedFalse
        /\ (mpc = "exited") => (exit_code = Some(1) <=> SomeReturnedFalse)

C27_Witness ==
    /\ test_type = "all"
    /\ mpc = "exited"
    /\ Len(suites) = 3
    /\ suites[1].returned = Some(FALSE)
    /\ suites[2].returned = Some(TRUE)
    /\ suites[3].returned = Some(TRUE)
    /\ exit_code = Some(1)

----------------------------------------------------------------------------
\* C28: run_performance_tests runs API load, then the Chrome probe, then
\* web load only when the probe succeeded, then stress; it stops at the
\* first profile whose command fails, returning False without starting a
\* later one, and returns True only when every profile it started
\* succeeded.
C28_ProfilesInOrder ==
    LET pc_ == PerfCommands
        n == Len(pc_)
    IN  Started("performance") =>
          /\ n >= 1
          /\ pc_[1].command = "api_load"
          /\ \A i \in 1..(n - 1) :
                /\ IsProfile(pc_[i]) => pc_[i].status = 0
                /\ pc_[i + 1].command =
                      (CASE pc_[i].command = "api_load" -> "probe"
                         [] pc_[i].command = "probe" ->
                               (IF pc_[i].status = 0 THEN "web_load"
                                ELSE "stress")
                         [] pc_[i].command = "web_load" -> "stress"
                         [] OTHER -> "nothing")
          /\ (suites[Len(suites)].returned = Some(FALSE)) <=>
                (IsProfile(pc_[n]) /\ pc_[n].status # 0)
          /\ (suites[Len(suites)].returned = Some(TRUE)) <=>
                (pc_[n].command = "stress" /\ pc_[n].status = 0)
          /\ (suites[Len(suites)].returned = Some(TRUE)) =>
                \A i \in 1..n : IsProfile(pc_[i]) => pc_[i].status = 0

\* the web load profile fails: False is returned and stress is not started
C28_Witness ==
    /\ mpc = "exited"
    /\ Started("performance")
    /\ Len(PerfCommands) = 3
    /\ PerfCommands[2] = Ran("probe", 0, <<>>)
    /\ PerfCommands[3] = Ran("web_load", 1, <<>>)
    /\ suites[Len(suites)].returned = Some(FALSE)

----------------------------------------------------------------------------
\* Vocabulary of the properties about StabilityTestUser

\* the response is one the tasks mean to mark as a success: status 200, a
\* body with 'status' and 'data', error_code 0
IsSuccessResponse(status_code, body) ==
    /\ status_code = 200
    /\ body.kind = "object"
    /\ {"status", "data"} \subseteq body.keys
    /\ body.status.mapping
    /\ body.status.error_code = Some(0)

----------------------------------------------------------------------------
\* C30: after on_start and any task executions, request_count =
\* success_count + failure_count; every executed task whose request
\* completed has recorded exactly one outcome, a success exactly when the
\* response was a success (status 200, body with 'status' and 'data',
\* error_code 0) and a failure otherwise.
C30_OutcomeRecorded ==
    user.started =>
        /\ user.request_count = user.success_count + user.failure_count
        /\ user.request_count = executed
        /\ (last_task.task # "none") =>
              last_task.outcome =
                 (IF IsSuccessResponse(last_task.status, last_task.body)
                  THEN "success" ELSE "failure")

\* the part of C30 that does hold: the counters balance, and no task
\* execution records more than one outcome
C30_CountersBalance ==
    user.started =>
        /\ user.request_count = user.success_count + user.failure_count
        /\ user.request_count <= executed
        /\ (last_task.outcome = "success") <=>
              (last_task.task # "none"
                  /\ IsSuccessResponse(last_task.status, last_task.body))

====
